---- MODULE Spec2Model ----
(***************************************************************************)
(* dbtools.Table: a frame-like interface to one table of a SQLite          *)
(* database (src/dbtools/table.py).                                        *)
(*                                                                         *)
(* The state is the database (the file, its catalog, the rows and the      *)
(* sqlite_sequence counter of each table), the Table objects constructed   *)
(* so far, and the outcome of the most recent call (what it returned or    *)
(* raised).  A Table object is an immutable descriptor (name, columns,     *)
(* primary_key, autoincrement), so the objects in existence are modelled   *)
(* as the set of their descriptors.                                        *)
(*                                                                         *)
(* Python values are records [t, v]:                                       *)
(*   t = "null"    None                                                    *)
(*   t = "int"     the int v                                               *)
(*   t = "numstr"  the str that is the decimal numeral of v, e.g. '2'      *)
(*   t = "word"    a str that is no numeral (the v-th of 'a', 'b', ...)    *)
(***************************************************************************)
EXTENDS Integers, Sequences, FiniteSets, TLC

VARIABLES dbfile, tables, handles, last

vars == <<dbfile, tables, handles, last>>

----------------------------------------------------------------------------
(* Bounds of the model. *)

\* rows a table may hold
MaxRows == 2
\* the largest primary key and sqlite_sequence value
MaxKey == 3

----------------------------------------------------------------------------
(* Values. *)

None == "None"

Null == [t |-> "null", v |-> 0]

IntV(n) == [t |-> "int", v |-> n]

NumStr(n) == [t |-> "numstr", v |-> n]

Word(n) == [t |-> "word", v |-> n]

\* the table names used by the callers
Names == {"Foo"}

\* the python exceptions a call can end with
InvalidType == "ValueError: invalid data type"

InvalidPrimaryKey == "ValueError: invalid data type for primary key"

ColumnCountMismatch == "ValueError: expected %d values, got %d"

UnsupportedStep == "ValueError: cannot handle step size > 1"

NoPrimaryKey == "ValueError: no autoincrementing primary key column"

InvalidArgument == "ValueError: expected a dictionary"

IndexError == "IndexError"

OperationalError == "sqlite3.OperationalError"

IntegrityError == "sqlite3.IntegrityError"

ProgrammingError == "sqlite3.ProgrammingError"

EngineErrors == {OperationalError, IntegrityError, ProgrammingError}

----------------------------------------------------------------------------
(* Sequence helpers. *)

Range(s) == {s[i] : i \in DOMAIN s}

\* the elements of s at the positions in keep, in order
RECURSIVE SelectIdx(_, _)
SelectIdx(s, keep) ==
    IF s = <<>> THEN <<>>
    ELSE LET n == Len(s)
             front == SelectIdx(SubSeq(s, 1, n - 1), keep)
         IN IF n \in keep THEN Append(front, s[n]) ELSE front

\* list.remove(x): s without the first occurrence of x
Remove(s, x) ==
    LET hits == {i \in DOMAIN s : s[i] = x}
    IN IF hits = {} THEN s
       ELSE LET k == CHOOSE i \in hits : \A j \in hits : i <= j
            IN SubSeq(s, 1, k - 1) \o SubSeq(s, k + 1, Len(s))

\* the first position of x in s (0 when absent)
IndexOf(s, x) ==
    LET hits == {i \in DOMAIN s : s[i] = x}
    IN IF hits = {} THEN 0 ELSE CHOOSE i \in hits : \A j \in hits : i <= j

----------------------------------------------------------------------------
(* The database engine behind sql_execute: catalog, rows, sqlite_sequence. *)
(* A catalog entry keeps the column definitions of the CREATE TABLE        *)
(* statement as written, each a sequence of space-separated tokens.        *)

NoTable == [sql |-> <<>>, rows |-> <<>>, seq |-> 0]

TableExists(name) == tables[name] # NoTable

\* the column names the engine reads from the stored definitions
TableColumns(t) == [i \in DOMAIN t.sql |-> t.sql[i][1]]

\* the declared type of column c (the token after its name)
DeclaredType(t, c) == t.sql[IndexOf(TableColumns(t), c)][2]

\* consecutive tokens "PRIMARY" "KEY" in a column definition
HasPrimaryKey(arg) ==
    \E i \in 2..(Len(arg) - 1) : arg[i] = "PRIMARY" /\ arg[i + 1] = "KEY"

HasAutoincrement(arg) == \E i \in 2..Len(arg) : arg[i] = "AUTOINCREMENT"

\* the INTEGER PRIMARY KEY column of a table (the rowid alias), or None
RowidColumn(t) ==
    LET pks == {i \in DOMAIN t.sql : HasPrimaryKey(t.sql[i])}
    IN IF pks = {} THEN None ELSE t.sql[CHOOSE i \in pks : TRUE][1]

IsAutoincrement(t) == \E i \in DOMAIN t.sql : HasAutoincrement(t.sql[i])

\* CREATE TABLE name(args): refused when the table exists, when no column is
\* declared, or when two columns share a name
EngineCreateOk(name, args) ==
    /\ ~TableExists(name)
    /\ Len(args) >= 1
    /\ \A i, j \in DOMAIN args : args[i][1] = args[j][1] => i = j

\* the largest key of the rows of a table with a rowid column (0 when empty)
MaxKeyOf(t) ==
    LET keys == {t.rows[i][RowidColumn(t)].v : i \in DOMAIN t.rows}
    IN IF keys = {} THEN 0 ELSE CHOOSE k \in keys : \A j \in keys : j <= k

\* the key the engine gives a row inserted without one: one more than the
\* largest key in the table, and with AUTOINCREMENT one more than the largest
\* key the table ever held (sqlite_sequence)
AutoKey(t) ==
    IF IsAutoincrement(t) /\ t.seq > MaxKeyOf(t)
    THEN t.seq + 1
    ELSE MaxKeyOf(t) + 1

\* rows are kept in rowid order: the position of a new row with key k
InsertSorted(rows, row, pk) ==
    LET before == {i \in DOMAIN rows : rows[i][pk].v < row[pk].v}
        n == Cardinality(before)
    IN SubSeq(rows, 1, n) \o <<row>> \o SubSeq(rows, n + 1, Len(rows))

\* column affinity: a numeral bound to an INTEGER column is stored as an
\* integer, an integer bound to a TEXT column is stored as its numeral
ApplyAffinity(type, x) ==
    CASE type = "INTEGER" /\ x.t = "numstr" -> IntV(x.v)
      [] type = "TEXT" /\ x.t = "int" -> NumStr(x.v)
      [] OTHER -> x

----------------------------------------------------------------------------
(* Table.create and Table.__init__. *)

\* the outcome of a call: what it was, on which Table object, with which
\* argument, the exception it raised (None when it returned) and its result
Outcome(op, h, arg, err, out) ==
    [op |-> op, h |-> h, arg |-> arg, err |-> err, out |-> out]

NoHandle ==
    [name |-> None, columns |-> <<>>, primary_key |-> None,
     autoincrement |-> FALSE]

\* the python types a caller may declare a column with
PyTypes == {"NoneType", "int", "long", "float", "str", "unicode", "buffer", "bool"}

\* parse the python type into a SQL type ("" when the type is invalid)
SqlType(dtype) ==
    CASE dtype = "NoneType" -> "NULL"
      [] dtype \in {"int", "long"} -> "INTEGER"
      [] dtype = "float" -> "REAL"
      [] dtype \in {"str", "unicode"} -> "TEXT"
      [] dtype = "buffer" -> "BLOB"
      [] OTHER -> ""

\* a primary key test that asks for INTEGER only when autoincrement is set
PrimaryKeyTypeOkAuto(sqltype, autoincrement) ==
    ~autoincrement \/ sqltype = "INTEGER"

\* the primary key test of create: the key column must be INTEGER
PrimaryKeyTypeOk(sqltype, autoincrement) == sqltype = "INTEGER"

\* the SQL syntax for one column
ColumnArg(label, dtype, primary_key, autoincrement) ==
    <<label, SqlType(dtype)>>
    \o (IF primary_key # None /\ primary_key = label
        THEN <<"PRIMARY", "KEY">>
             \o (IF autoincrement THEN <<"AUTOINCREMENT">> ELSE <<>>)
        ELSE <<>>)

\* the exception the column loop of create raises: that of the first column,
\* in declaration order, with an invalid type or an invalid primary key type
CreateError(dtypes, primary_key, autoincrement) ==
    LET badType(i) == SqlType(dtypes[i][2]) = ""
        badKey(i) == /\ primary_key # None
                     /\ primary_key = dtypes[i][1]
                     /\ ~PrimaryKeyTypeOk(SqlType(dtypes[i][2]), autoincrement)
        bad == {i \in DOMAIN dtypes : badType(i) \/ badKey(i)}
    IN IF bad = {} THEN None
       ELSE LET k == CHOOSE i \in bad : \A j \in bad : i <= j
            IN IF badType(k) THEN InvalidType ELSE InvalidPrimaryKey

CreateArgs(dtypes, primary_key, autoincrement) ==
    [i \in DOMAIN dtypes |->
        ColumnArg(dtypes[i][1], dtypes[i][2], primary_key, autoincrement)]

\* the column names __init__ reads from the stored definitions
ParseColumns(sql) == [i \in DOMAIN sql |-> sql[i][1]]

\* a primary key parse that takes the first column for the key
ParsePrimaryKeyFirst(sql) ==
    LET pk == {i \in DOMAIN sql : HasPrimaryKey(sql[i])}
    IN IF Cardinality(pk) = 1 THEN ParseColumns(sql)[1] ELSE None

\* the primary key __init__ reads from the stored definitions
ParsePrimaryKey(sql) ==
    LET pk == {i \in DOMAIN sql : HasPrimaryKey(sql[i])}
    IN IF Cardinality(pk) = 1
       THEN ParseColumns(sql)[CHOOSE i \in pk : TRUE]
       ELSE None

\* __init__: the Table object for the table called name
Introspect(name) ==
    LET sql == tables[name].sql
        ai == {i \in DOMAIN sql : HasAutoincrement(sql[i])}
    IN [name |-> name,
        columns |-> ParseColumns(sql),
        primary_key |-> ParsePrimaryKey(sql),
        autoincrement |-> ParsePrimaryKey(sql) # None /\ Cardinality(ai) = 1]

\* the exception __init__ raises (None when it returns)
IntrospectError(name) ==
    LET sql == tables[name].sql
        pk == {i \in DOMAIN sql : HasPrimaryKey(sql[i])}
        ai == {i \in DOMAIN sql : HasAutoincrement(sql[i])}
    IN CASE ~TableExists(name) -> IndexError
         [] Cardinality(pk) > 1 -> "ValueError: more than one primary key"
         [] Cardinality(ai) > 1 -> "ValueError: more than one autoincrementing column"
         [] /\ Cardinality(pk) = 1 /\ Cardinality(ai) = 1
            /\ pk # ai -> "ValueError: autoincrement is different from primary key"
         [] OTHER -> None

\* Table.exists(db, name)
Exists(name) == dbfile /\ TableExists(name)

ExistsCall(name) ==
    /\ last' = Outcome("exists", NoHandle, name, None, Exists(name))
    /\ UNCHANGED <<dbfile, tables, handles>>

\* a create that tests the primary key's type only after it has executed the
\* CREATE TABLE statement
CreateKeyTestLate(name, dtypes, primary_key, autoincrement) ==
    LET arg == [name |-> name, dtypes |-> dtypes, primary_key |-> primary_key,
                autoincrement |-> autoincrement]
        err == CreateError(dtypes, primary_key, autoincrement)
        args == CreateArgs(dtypes, primary_key, autoincrement)
        typed == \A i \in DOMAIN dtypes : SqlType(dtypes[i][2]) # ""
    IN IF err # None /\ ~(err = InvalidPrimaryKey /\ typed)
       THEN /\ last' = Outcome("create", NoHandle, arg, err, <<>>)
            /\ UNCHANGED <<dbfile, tables, handles>>
       ELSE IF ~EngineCreateOk(name, args)
       THEN /\ dbfile' = TRUE
            /\ last' = Outcome("create", NoHandle, arg, OperationalError, <<>>)
            /\ UNCHANGED <<tables, handles>>
       ELSE /\ dbfile' = TRUE
            /\ tables' = [tables EXCEPT ![name] =
                              [sql |-> args, rows |-> <<>>, seq |-> 0]]
            /\ LET h == Introspect(name)'
               IN IF err # None
                  THEN /\ UNCHANGED handles
                       /\ last' = Outcome("create", NoHandle, arg, err, <<>>)
                  ELSE /\ handles' = handles \cup {h}
                       /\ last' = Outcome("create", h, arg, None, <<>>)

\* Table.create(db, name, dtypes, primary_key, autoincrement)
Create(name, dtypes, primary_key, autoincrement) ==
    LET arg == [name |-> name, dtypes |-> dtypes, primary_key |-> primary_key,
                autoincrement |-> autoincrement]
        err == CreateError(dtypes, primary_key, autoincrement)
        args == CreateArgs(dtypes, primary_key, autoincrement)
    IN IF err # None
       THEN /\ last' = Outcome("create", NoHandle, arg, err, <<>>)
            /\ UNCHANGED <<dbfile, tables, handles>>
       ELSE IF ~EngineCreateOk(name, args)
       THEN /\ dbfile' = TRUE
            /\ last' = Outcome("create", NoHandle, arg, OperationalError, <<>>)
            /\ UNCHANGED <<tables, handles>>
       ELSE /\ dbfile' = TRUE
            /\ tables' = [tables EXCEPT ![name] =
                              [sql |-> args, rows |-> <<>>, seq |-> 0]]
            /\ LET h == Introspect(name)'
               IN /\ handles' = handles \cup {h}
                  /\ last' = Outcome("create", h, arg, None, <<>>)

\* Table(db, name)
Construct(name) ==
    LET err == IntrospectError(name)
    IN /\ dbfile' = TRUE
       /\ UNCHANGED tables
       /\ IF err # None
          THEN /\ last' = Outcome("init", NoHandle, name, err, <<>>)
               /\ UNCHANGED handles
          ELSE /\ handles' = handles \cup {Introspect(name)}
               /\ last' = Outcome("init", Introspect(name), name, None, <<>>)

\* DROP TABLE: the rows and the sqlite_sequence entry go with the table
EngineDrop(name) == [tables EXCEPT ![name] = NoTable]

\* a drop() that reports success without executing DROP TABLE
DropSkipped(h) ==
    /\ dbfile' = TRUE
    /\ UNCHANGED <<tables, handles>>
    /\ last' = Outcome("drop", h, <<>>, None, <<>>)

\* Table.drop()
Drop(h) ==
    /\ dbfile' = TRUE
    /\ UNCHANGED handles
    /\ IF TableExists(h.name)
       THEN /\ tables' = EngineDrop(h.name)
            /\ last' = Outcome("drop", h, <<>>, None, <<>>)
       ELSE /\ last' = Outcome("drop", h, <<>>, OperationalError, <<>>)
            /\ UNCHANGED tables

----------------------------------------------------------------------------
(* Filters: Table._where and the engine's evaluation of a WHERE clause.    *)
(* A conditional is a conjunction of comparisons column cmp operand, the   *)
(* operand a literal or the placeholder "?".                               *)

Placeholder == [t |-> "?", v |-> 0]

Cond(col, cmp, lit) == [col |-> col, cmp |-> cmp, lit |-> lit]

\* the where argument of a caller: None, a conditional string, or a pair
\* (conditional, arguments), the arguments None, one value or a tuple
WhereNone == [form |-> "none", pred |-> <<>>, scalar |-> FALSE, vals |-> <<>>]

WhereStr(pred) == [form |-> "str", pred |-> pred, scalar |-> FALSE, vals |-> <<>>]

WherePair(pred, arg) ==
    [form |-> "pair", pred |-> pred, scalar |-> TRUE, vals |-> <<arg>>]

WhereTuple(pred, args) ==
    [form |-> "pair", pred |-> pred, scalar |-> FALSE, vals |-> args]

\* _where: the conditional of the WHERE clause (empty: no clause) and the
\* flat list of its arguments
Where(args) ==
    IF args.form = "none"
    THEN [pred |-> <<>>, args |-> <<>>]
    ELSE IF args.form = "str"
    THEN [pred |-> args.pred, args |-> <<>>]
    ELSE [pred |-> args.pred, args |-> args.vals]

\* SQL comparison of two non-NULL values: integers sort before text,
\* numerals before words
SqlLess(x, y) ==
    CASE x.t = "int" /\ y.t = "int" -> x.v < y.v
      [] x.t = "int" -> TRUE
      [] y.t = "int" -> FALSE
      [] x.t = y.t -> x.v < y.v
      [] OTHER -> x.t = "numstr"

SqlCompare(cmp, x, y) ==
    /\ x # Null
    /\ y # Null
    /\ CASE cmp = "=" -> x = y
         [] cmp = "<" -> SqlLess(x, y)
         [] cmp = ">=" -> ~SqlLess(x, y)
         [] OTHER -> FALSE

\* the operand of the i-th comparison: its literal, or the argument bound to
\* its placeholder (placeholders are bound in order)
Operand(w, i) ==
    IF w.pred[i].lit = Placeholder
    THEN w.args[Cardinality({j \in 1..i : w.pred[j].lit = Placeholder})]
    ELSE w.pred[i].lit

\* whether a row satisfies the WHERE clause w
Matches(t, row, w) ==
    \A i \in DOMAIN w.pred :
        SqlCompare(w.pred[i].cmp, row[w.pred[i].col],
                   ApplyAffinity(DeclaredType(t, w.pred[i].col), Operand(w, i)))

\* the error of a statement on table t naming the columns cols with the
\* WHERE clause w (None when the engine executes it)
StatementError(t, cols, w) ==
    CASE t = NoTable -> OperationalError
      [] cols = <<>> -> OperationalError
      [] ~(Range(cols) \subseteq Range(TableColumns(t))) -> OperationalError
      [] \E i \in DOMAIN w.pred :
            w.pred[i].col \notin Range(TableColumns(t)) -> OperationalError
      [] Cardinality({i \in DOMAIN w.pred : w.pred[i].lit = Placeholder})
            # Len(w.args) -> ProgrammingError
      [] OTHER -> None

\* the positions of the rows of t that satisfy w
Matching(t, w) == {i \in DOMAIN t.rows : Matches(t, t.rows[i], w)}

----------------------------------------------------------------------------
(* Table.insert. *)

\* a row given as a mapping from column names to values
DictRow(keys, vals) == [kind |-> "dict", keys |-> keys, vals |-> vals]

\* a row given as an ordered sequence of values
SeqRow(vals) == [kind |-> "seq", keys |-> <<>>, vals |-> vals]

\* len(row)
RowLen(r) == IF r.kind = "dict" THEN Len(r.keys) ELSE Len(r.vals)

\* vals.get(key, None)
DictGet(r, key) ==
    IF IndexOf(r.keys, key) = 0 THEN Null ELSE r.vals[IndexOf(r.keys, key)]

\* the values argument as a list of rows: None is one empty mapping, a single
\* row is encased in a list
Normalize(values) ==
    IF values.form = "none" THEN <<DictRow(<<>>, <<>>)>> ELSE values.rows

ValuesNone == [form |-> "none", rows |-> <<>>]

ValuesOne(row) == [form |-> "one", rows |-> <<row>>]

ValuesList(rows) == [form |-> "list", rows |-> rows]

\* whether insert leaves the primary key out of the column list
ExcludesKey(h, rows) ==
    RowLen(rows[1]) = Len(h.columns) - 1 /\ h.primary_key # None

\* a column list that always keeps the primary key
InsertColsKeep(h, rows) == h.columns

\* the column list of the INSERT statements
InsertCols(h, rows) ==
    IF ExcludesKey(h, rows) THEN Remove(h.columns, h.primary_key) ELSE h.columns

\* the entry bound to the INSERT statement of one row
Entry(r, cols) ==
    IF r.kind = "dict" THEN [i \in DOMAIN cols |-> DictGet(r, cols[i])] ELSE r.vals

\* the entries of a call taken last row first
EntriesReversed(rows, cols) ==
    [i \in DOMAIN rows |-> Entry(rows[Len(rows) + 1 - i], cols)]

\* the entries of a call, in the order their statements are executed
Entries(rows, cols) == [i \in DOMAIN rows |-> Entry(rows[i], cols)]

\* the length test of the sequence rows
LengthOk(r, ncol) == r.kind = "dict" \/ Len(r.vals) = ncol

\* a length test that looks at the first row of the call only
InsertErrorFirstRow(h, values) ==
    LET rows == Normalize(values)
    IN CASE rows = <<>> -> IndexError
         [] ~LengthOk(rows[1], Len(InsertCols(h, rows))) -> ColumnCountMismatch
         [] OTHER -> None

\* the exception insert raises before it executes a statement
InsertError(h, values) ==
    LET rows == Normalize(values)
    IN CASE rows = <<>> -> IndexError
         [] \E i \in DOMAIN rows :
               ~LengthOk(rows[i], Len(InsertCols(h, rows))) -> ColumnCountMismatch
         [] OTHER -> None

\* INSERT INTO t(cols) VALUES (entry): the error and the table afterwards
EngineInsert(t, cols, entry) ==
    LET pk == RowidColumn(t)
        bound(c) == IF IndexOf(cols, c) = 0 THEN Null
                    ELSE ApplyAffinity(DeclaredType(t, c), entry[IndexOf(cols, c)])
        raw == [c \in Range(TableColumns(t)) |-> bound(c)]
        w == [pred |-> <<>>, args |-> <<>>]
    IN IF StatementError(t, cols, w) # None
       THEN [err |-> StatementError(t, cols, w), t |-> t]
       ELSE IF pk = None
       THEN [err |-> None, t |-> [t EXCEPT !.rows = Append(@, raw)]]
       ELSE IF raw[pk].t \notin {"null", "int"}
       THEN [err |-> IntegrityError, t |-> t]
       ELSE LET key == IF raw[pk].t = "null" THEN AutoKey(t) ELSE raw[pk].v
                row == [raw EXCEPT ![pk] = IntV(key)]
            IN IF \E i \in DOMAIN t.rows : t.rows[i][pk].v = key
               THEN [err |-> IntegrityError, t |-> t]
               ELSE [err |-> None,
                     t |-> [t EXCEPT !.rows = InsertSorted(@, row, pk),
                                     !.seq = IF IsAutoincrement(t) /\ key > @
                                             THEN key ELSE @]]

\* one INSERT per entry, in order, each committed on its own; the first
\* error ends the call
RECURSIVE InsertAll(_, _, _)
InsertAll(t, cols, entries) ==
    IF entries = <<>> THEN [err |-> None, t |-> t]
    ELSE LET r == EngineInsert(t, cols, Head(entries))
         IN IF r.err # None THEN r ELSE InsertAll(r.t, cols, Tail(entries))

\* the rows, keys and sqlite_sequence of a table stay within the bounds
WithinBounds(t) ==
    /\ Len(t.rows) <= MaxRows
    /\ t.seq <= MaxKey
    /\ RowidColumn(t) # None => MaxKeyOf(t) <= MaxKey

\* an insert that tests each row's length right before it executes the row's
\* statement, so the rows before a bad one are stored
InsertLazy(h, values) ==
    LET rows == Normalize(values)
        cols == InsertCols(h, rows)
        bad == {i \in DOMAIN rows : ~LengthOk(rows[i], Len(cols))}
        n == IF bad = {} THEN Len(rows)
             ELSE (CHOOSE i \in bad : \A j \in bad : i <= j) - 1
        r == InsertAll(tables[h.name], cols, Entries(SubSeq(rows, 1, n), cols))
    IN /\ UNCHANGED handles
       /\ WithinBounds(r.t)
       /\ dbfile' = TRUE
       /\ tables' = [tables EXCEPT ![h.name] = r.t]
       /\ last' = Outcome("insert", h, values,
                          IF r.err # None THEN r.err ELSE InsertError(h, values),
                          <<>>)

\* Table.insert(values)
Insert(h, values) ==
    LET rows == Normalize(values)
        cols == InsertCols(h, rows)
        r == InsertAll(tables[h.name], cols, Entries(rows, cols))
    IN /\ UNCHANGED handles
       /\ IF InsertError(h, values) # None
          THEN /\ last' = Outcome("insert", h, values, InsertError(h, values), <<>>)
               /\ UNCHANGED <<dbfile, tables>>
          ELSE /\ WithinBounds(r.t)
               /\ dbfile' = TRUE
               /\ tables' = [tables EXCEPT ![h.name] = r.t]
               /\ last' = Outcome("insert", h, values, r.err, <<>>)

----------------------------------------------------------------------------
(* Table.select, Table.__getitem__, Table.save_csv. *)

\* the columns argument: None, one column name, or a list of names
ColsNone == [form |-> "none", cols |-> <<>>]

ColsStr(c) == [form |-> "str", cols |-> <<c>>]

ColsList(cols) == [form |-> "list", cols |-> cols]

\* a column list that puts a missing primary key after the requested columns
SelectColsAppend(h, columns) ==
    LET cols == IF columns.form = "none" THEN h.columns ELSE columns.cols
    IN IF h.primary_key # None /\ h.primary_key \notin Range(cols)
       THEN Append(cols, h.primary_key)
       ELSE cols

\* the column list of the SELECT statement: the requested columns, with the
\* primary key put first when it is not among them
SelectCols(h, columns) ==
    LET cols == IF columns.form = "none" THEN h.columns ELSE columns.cols
    IN IF h.primary_key # None /\ h.primary_key \notin Range(cols)
       THEN <<h.primary_key>> \o cols
       ELSE cols

\* the index column of the result
SelectIndex(h, cols) ==
    IF h.primary_key \in Range(cols) THEN h.primary_key ELSE None

\* the result frame: the selected columns, the index column among them (or
\* None) and the records, each a tuple of values aligned with the columns
Frame(cols, index, records) ==
    [cols |-> cols, index |-> index, records |-> records]

NoFrame == Frame(<<>>, None, <<>>)

\* SELECT cols FROM t WHERE w: the matching rows in rowid order
EngineSelect(t, cols, w) ==
    LET hit == SelectIdx(t.rows, Matching(t, w))
    IN [i \in DOMAIN hit |-> [j \in DOMAIN cols |-> hit[i][cols[j]]]]

\* select(columns, where): the exception and the frame returned
SelectResult(h, columns, where) ==
    LET cols == SelectCols(h, columns)
        w == Where(where)
        t == tables[h.name]
        err == StatementError(t, cols, w)
    IN IF err # None
       THEN [err |-> err, out |-> NoFrame]
       ELSE [err |-> None,
             out |-> Frame(cols, SelectIndex(h, cols), EngineSelect(t, cols, w))]

\* Table.select(columns, where)
Select(h, columns, where) ==
    LET r == SelectResult(h, columns, where)
    IN /\ dbfile' = TRUE
       /\ last' = Outcome("select", h, [columns |-> columns, where |-> where],
                          r.err, r.out)
       /\ UNCHANGED <<tables, handles>>

\* the keys of indexed access: an int, a slice, a column name, a tuple of
\* column names; start, stop and step are ints or None
IntKey(k) ==
    [kind |-> "int", k |-> IntV(k), start |-> Null, stop |-> Null,
     step |-> Null, cols |-> <<>>]

SliceKey(start, stop, step) ==
    [kind |-> "slice", k |-> Null, start |-> start, stop |-> stop,
     step |-> step, cols |-> <<>>]

StrKey(c) ==
    [kind |-> "str", k |-> Null, start |-> Null, stop |-> Null,
     step |-> Null, cols |-> <<c>>]

TupleKey(cols) ==
    [kind |-> "tuple", k |-> Null, start |-> Null, stop |-> Null,
     step |-> Null, cols |-> cols]

\* a step test that lets every positive step through
PositiveStep(step) == step = Null \/ step.v >= 1

\* key.step in (None, 1)
DefaultStep(step) == step = Null \/ step = IntV(1)

\* the slice filter with the arguments of "<? AND >=?" bound start first
SliceWhereSwapped(pk, key) ==
    IF key.start = Null
    THEN WherePair(<<Cond(pk, "<", Placeholder)>>, key.stop)
    ELSE IF key.stop = Null
    THEN WherePair(<<Cond(pk, ">=", Placeholder)>>, key.start)
    ELSE WhereTuple(<<Cond(pk, "<", Placeholder), Cond(pk, ">=", Placeholder)>>,
                    <<key.start, key.stop>>)

\* the filter of a slice with a start or a stop
SliceWhere(pk, key) ==
    IF key.start = Null
    THEN WherePair(<<Cond(pk, "<", Placeholder)>>, key.stop)
    ELSE IF key.stop = Null
    THEN WherePair(<<Cond(pk, ">=", Placeholder)>>, key.start)
    ELSE WhereTuple(<<Cond(pk, "<", Placeholder), Cond(pk, ">=", Placeholder)>>,
                    <<key.stop, key.start>>)

\* the exception __getitem__ raises before it selects (None: it selects)
GetItemError(h, key) ==
    CASE key.kind = "int" /\ h.primary_key = None -> NoPrimaryKey
      [] /\ key.kind = "slice"
         /\ ~(key.start = Null /\ key.stop = Null /\ DefaultStep(key.step))
         /\ h.primary_key = None -> NoPrimaryKey
      [] /\ key.kind = "slice"
         /\ ~(key.start = Null /\ key.stop = Null /\ DefaultStep(key.step))
         /\ ~DefaultStep(key.step) -> UnsupportedStep
      [] OTHER -> None

\* __getitem__(key): the exception and the frame returned
GetItemResult(h, key) ==
    IF GetItemError(h, key) # None
    THEN [err |-> GetItemError(h, key), out |-> NoFrame]
    ELSE CASE key.kind = "int" ->
                SelectResult(h, ColsNone,
                    WherePair(<<Cond(h.primary_key, "=", Placeholder)>>, key.k))
           [] key.kind = "slice" ->
                IF key.start = Null /\ key.stop = Null
                THEN SelectResult(h, ColsNone, WhereNone)
                ELSE SelectResult(h, ColsNone, SliceWhere(h.primary_key, key))
           [] key.kind = "str" -> SelectResult(h, ColsStr(key.cols[1]), WhereNone)
           [] OTHER -> SelectResult(h, ColsList(key.cols), WhereNone)

\* whether a call that ended with err reached the engine
Executed(err) == err = None \/ err \in EngineErrors

\* Table.__getitem__(key)
GetItem(h, key) ==
    LET r == GetItemResult(h, key)
    IN /\ dbfile' = (dbfile \/ Executed(r.err))
       /\ last' = Outcome("getitem", h, key, r.err, r.out)
       /\ UNCHANGED <<tables, handles>>

\* Table.save_csv(path, columns, where): the frame select returns is written
\* to the file at path, which the program never reads back: the frame written
\* is the call's result
SaveCsv(h, columns, where) ==
    LET r == SelectResult(h, columns, where)
    IN /\ dbfile' = TRUE
       /\ last' = Outcome("save_csv", h, [columns |-> columns, where |-> where],
                          r.err, r.out)
       /\ UNCHANGED <<tables, handles>>

----------------------------------------------------------------------------
(* Table.update and Table.delete. *)

\* UPDATE t SET cols = vals WHERE w: the table afterwards
EngineUpdate(t, cols, vals, w) ==
    LET new(row) ==
            [c \in DOMAIN row |->
                IF IndexOf(cols, c) = 0 THEN row[c]
                ELSE ApplyAffinity(DeclaredType(t, c), vals[IndexOf(cols, c)])]
    IN [t EXCEPT !.rows =
            [i \in DOMAIN t.rows |->
                IF Matches(t, t.rows[i], w) THEN new(t.rows[i]) ELSE t.rows[i]]]

\* Table.update(values, where); the assignments are bound before the filter's
\* arguments
Update(h, values, where) ==
    LET w == Where(where)
        t == tables[h.name]
        err == StatementError(t, values.keys, w)
    IN /\ UNCHANGED handles
       /\ IF values.kind # "dict"
          THEN /\ last' = Outcome("update", h, [values |-> values, where |-> where],
                                  InvalidArgument, <<>>)
               /\ UNCHANGED <<dbfile, tables>>
          ELSE /\ RowidColumn(t) \notin Range(values.keys)
               /\ dbfile' = TRUE
               /\ tables' = IF err # None THEN tables
                            ELSE [tables EXCEPT ![h.name] =
                                     EngineUpdate(t, values.keys, values.vals, w)]
               /\ last' = Outcome("update", h, [values |-> values, where |-> where],
                                  err, <<>>)

\* DELETE FROM t WHERE w: the table afterwards (sqlite_sequence is kept)
EngineDelete(t, w) ==
    [t EXCEPT !.rows = SelectIdx(t.rows, DOMAIN t.rows \ Matching(t, w))]

\* a delete() that refuses to delete every row when no filter is given
DeleteGuarded(h, where) ==
    LET w == Where(where)
        t == tables[h.name]
        err == StatementError(t, TableColumns(t), w)
    IN /\ UNCHANGED handles
       /\ dbfile' = TRUE
       /\ tables' = IF err # None \/ where = WhereNone THEN tables
                    ELSE [tables EXCEPT ![h.name] = EngineDelete(t, w)]
       /\ last' = Outcome("delete", h, where, err, <<>>)

\* Table.delete(where)
Delete(h, where) ==
    LET w == Where(where)
        t == tables[h.name]
        err == StatementError(t, TableColumns(t), w)
    IN /\ UNCHANGED handles
       /\ dbfile' = TRUE
       /\ tables' = IF err # None THEN tables
                    ELSE [tables EXCEPT ![h.name] = EngineDelete(t, w)]
       /\ last' = Outcome("delete", h, where, err, <<>>)

----------------------------------------------------------------------------
(* The callers: the test table Foo(id, name) and the calls made on it. *)

\* the declarations of the test table
Dtypes == {<< <<"id", "int">>, <<"name", "str">> >>}

\* the primary key and autoincrement arguments of create
InCreates == {<<None, FALSE>>, <<"id", TRUE>>}

\* the values arguments of insert: rows with and without a key, as sequences
\* and as mappings, alone and in lists
InValues ==
    { ValuesOne(SeqRow(<<Word(0)>>)),
      ValuesOne(SeqRow(<<IntV(1)>>)),
      ValuesOne(SeqRow(<<IntV(2), Word(0)>>)),
      ValuesOne(DictRow(<<"name">>, <<Word(0)>>)),
      ValuesOne(DictRow(<<"id">>, <<IntV(3)>>)),
      ValuesList(<<SeqRow(<<Word(0)>>), SeqRow(<<IntV(1)>>)>>),
      ValuesList(<<SeqRow(<<Word(0)>>), SeqRow(<<IntV(2), Word(0)>>)>>),
      ValuesList(<<DictRow(<<"name">>, <<Word(0)>>),
                   DictRow(<<"id", "name">>, <<IntV(3), Word(0)>>)>>) }

\* the filters of select, update and delete
InWheres == {WhereNone, WherePair(<<Cond("id", ">=", Placeholder)>>, IntV(2))}

InColumns == {ColsNone, ColsStr("name")}

\* the keys of indexed access
InKeys ==
    { IntKey(1), SliceKey(IntV(1), IntV(2), Null), SliceKey(Null, Null, IntV(2)),
      StrKey("name") }

InUpdates == {DictRow(<<"name">>, <<IntV(1)>>), SeqRow(<<IntV(1)>>)}

Init ==
    /\ dbfile = FALSE
    /\ tables = [n \in Names |-> NoTable]
    /\ handles = {}
    /\ last = Outcome("none", NoHandle, <<>>, None, <<>>)

Next ==
    \/ \E n \in Names : ExistsCall(n)
    \/ \E n \in Names, d \in Dtypes, c \in InCreates : Create(n, d, c[1], c[2])
    \/ \E n \in Names : Construct(n)
    \/ \E h \in handles : Drop(h)
    \/ \E h \in handles, v \in InValues : Insert(h, v)
    \/ \E h \in handles, c \in InColumns : Select(h, c, WhereNone)
    \/ \E h \in handles, k \in InKeys : GetItem(h, k)
    \/ \E h \in handles, v \in InUpdates : Update(h, v, WhereNone)
    \/ \E h \in handles, w \in InWheres : Delete(h, w)
    \/ \E h \in handles : SaveCsv(h, ColsStr("name"), WhereNone)

Spec == Init /\ [][Next]_vars

----------------------------------------------------------------------------
(* Properties of the Table object's life cycle and of insert. *)

\* the operations on a Table object
HandleOps == {"drop", "insert", "select", "getitem", "update", "delete", "save_csv"}

\* the errors the wrapper raises before a statement reaches the engine
ArgumentErrors ==
    {UnsupportedStep, NoPrimaryKey, ColumnCountMismatch, InvalidArgument, IndexError}

\* the Table object the most recent call was made on is the introspection of
\* the table as it is now
LastHandleCurrent ==
    /\ TableExists(last.h.name)
    /\ last.h = Introspect(last.h.name)

\* C1 as stated: after drop() has been called on a Table object, the next
\* operation on that object fails with an engine-reported error.
C1_AfterDropEngineError ==
    [][(last.op = "drop" /\ last'.op \in HandleOps /\ last'.h = last.h)
          => last'.err \in EngineErrors]_vars

\* C1 amended: drop() on a Table object whose table exists removes the table;
\* every operation on a Table object whose table does not exist fails and
\* changes nothing: select, delete, save_csv and drop with the engine-reported
\* error, and insert, update and indexed access with the engine-reported error
\* unless the wrapper rejects their arguments first.
C1_DroppedFails ==
    [][/\ (last'.op = "drop" /\ TableExists(last'.h.name))
            => (last'.err = None /\ tables'[last'.h.name] = NoTable)
       /\ (last'.op \in HandleOps /\ ~TableExists(last'.h.name))
            => /\ last'.err \in EngineErrors \cup ArgumentErrors
               /\ last'.out \in {<<>>, NoFrame}
               /\ tables' = tables
               /\ last'.op \in {"select", "delete", "save_csv", "drop"}
                     => last'.err = OperationalError
               /\ (last'.op = "insert" /\ InsertError(last'.h, last'.arg) = None)
                     => last'.err = OperationalError
               /\ (last'.op = "getitem" /\ GetItemError(last'.h, last'.arg) = None)
                     => last'.err = OperationalError
               /\ (last'.op = "update" /\ last'.arg.values.kind = "dict")
                     => last'.err = OperationalError]_vars

\* a select on a Table object whose table was dropped has failed
C1_Witness ==
    /\ last.op = "select"
    /\ last.h \in handles
    /\ ~TableExists(last.h.name)
    /\ last.err = OperationalError

\* a row that carries no primary key value for the Table object h
NoKey(h, r) ==
    IF r.kind = "dict"
    THEN h.primary_key \notin Range(r.keys)
    ELSE Len(r.vals) = Len(h.columns) - 1

\* the value a row without a key supplies for the column c
Supplied(h, r, c) ==
    IF r.kind = "dict"
    THEN DictGet(r, c)
    ELSE r.vals[IndexOf(Remove(h.columns, h.primary_key), c)]

\* the keys of the rows of t are 1..n in row order and no key was ever larger:
\* the table was created and then only received rows without a key
Counted(t) ==
    /\ t.seq = Len(t.rows)
    /\ \A i \in DOMAIN t.rows : t.rows[i][RowidColumn(t)] = IntV(i)

\* C2: on a table with an autoincrementing primary key that was freshly
\* created, or has so far only received rows without a key (keys 1..n), an
\* insert of m rows without a key appends m rows: the i-th row of the call
\* gets the key n+i and holds the values the call gave it.
C2_AutoincrementKeys ==
    [][LET h == last'.h
           t == tables[h.name]
           u == tables'[h.name]
           rows == Normalize(last'.arg)
           n == Len(t.rows)
       IN (/\ last'.op = "insert"
           /\ last'.err = None
           /\ TableExists(h.name)
           /\ h = Introspect(h.name)
           /\ h.autoincrement
           /\ Counted(t)
           /\ \A i \in DOMAIN rows : NoKey(h, rows[i]))
          => /\ Len(u.rows) = n + Len(rows)
             /\ SubSeq(u.rows, 1, n) = t.rows
             /\ \A i \in DOMAIN rows :
                   /\ u.rows[n + i][h.primary_key] = IntV(n + i)
                   /\ \A c \in Range(h.columns) \ {h.primary_key} :
                         u.rows[n + i][c] =
                            ApplyAffinity(DeclaredType(t, c),
                                          Supplied(h, rows[i], c))]_vars

\* two rows without a key were inserted in one call into an empty
\* autoincrement table, which now holds the keys 1 and 2
C2_Witness ==
    /\ last.op = "insert"
    /\ last.err = None
    /\ last.arg.form = "list"
    /\ Len(last.arg.rows) = 2
    /\ \A i \in DOMAIN last.arg.rows : NoKey(last.h, last.arg.rows[i])
    /\ LastHandleCurrent
    /\ last.h.autoincrement
    /\ Counted(tables[last.h.name])
    /\ Len(tables[last.h.name].rows) = 2

\* the most recent call returned, and its table is empty: select() on its Table
\* object returns a frame without records
EmptiedByLast ==
    /\ last.err = None
    /\ tables[last.h.name].rows = <<>>
    /\ SelectResult(last.h, ColsNone, WhereNone).err = None
    /\ SelectResult(last.h, ColsNone, WhereNone).out.records = <<>>

\* C5: delete() without a filter on a Table object whose table exists succeeds
\* and removes every row, whatever was inserted and updated before: the table
\* still exists with its declaration, and select() then returns no record.
C5_DeleteAll ==
    [][(/\ last'.op = "delete"
        /\ last'.arg = WhereNone
        /\ TableExists(last'.h.name))
       => /\ tables'[last'.h.name].sql = tables[last'.h.name].sql
          /\ EmptiedByLast']_vars

\* delete() without a filter has emptied an autoincrement table that held rows
C5_Witness ==
    /\ last.op = "delete"
    /\ last.arg = WhereNone
    /\ last.err = None
    /\ TableExists(last.h.name)
    /\ tables[last.h.name].rows = <<>>
    /\ tables[last.h.name].seq >= 2

\* s without its k-th element
RemoveAt(s, k) == SubSeq(s, 1, k - 1) \o SubSeq(s, k + 1, Len(s))

\* the records select() returns on the Table object h
Records(h) == SelectResult(h, ColsNone, WhereNone).out.records

\* the columns a single row r supplies a value for: the keys of a mapping, the
\* columns of a sequence by position (all of them, or all but the primary key
\* for a sequence one shorter)
GivenCols(h, r) ==
    IF r.kind = "dict" THEN Range(r.keys) \cap Range(h.columns)
    ELSE IF Len(r.vals) = Len(h.columns) - 1 /\ h.primary_key # None
    THEN Range(h.columns) \ {h.primary_key}
    ELSE Range(h.columns)

GivenValue(h, r, c) ==
    IF r.kind = "dict" THEN DictGet(r, c)
    ELSE IF Len(r.vals) = Len(h.columns) - 1 /\ h.primary_key # None
    THEN r.vals[IndexOf(Remove(h.columns, h.primary_key), c)]
    ELSE r.vals[IndexOf(h.columns, c)]

\* the columns of the statement that inserts the single row r: every column,
\* but for the primary key when the row has one entry less than the columns
ListedCols(h, r) ==
    IF RowLen(r) = Len(h.columns) - 1 /\ h.primary_key # None
    THEN Range(h.columns) \ {h.primary_key}
    ELSE Range(h.columns)

\* the row r leaves the primary key to the engine
KeyLeftToEngine(h, r) ==
    h.primary_key \notin ListedCols(h, r) \/ GivenValue(h, r, h.primary_key) = Null

----------------------------------------------------------------------------
(* Indexed access: the rows of the test table and every shape of key. *)

\* ints and None for the start and stop of a slice
InBounds == {Null, IntV(0), IntV(1), IntV(2), IntV(3)}

IndexKeys ==
    {IntKey(k) : k \in {0, 1, 2, 3}}
    \cup {SliceKey(a, b, c) : a \in InBounds, b \in InBounds, c \in {Null, IntV(2)}}
    \cup {SliceKey(Null, Null, IntV(1)), SliceKey(IntV(1), IntV(3), IntV(1)),
          StrKey("name"), TupleKey(<<"name", "id">>)}

IndexValues ==
    { ValuesOne(SeqRow(<<Word(0)>>)),
      ValuesOne(SeqRow(<<IntV(MaxKey), Word(0)>>)),
      ValuesList(<<SeqRow(<<Word(0)>>), SeqRow(<<Word(1)>>)>>) }

NextIndex ==
    \/ \E n \in Names, d \in Dtypes, c \in InCreates : Create(n, d, c[1], c[2])
    \/ \E h \in handles : Drop(h)
    \/ \E h \in handles, v \in IndexValues : Insert(h, v)
    \/ \E h \in handles, k \in IndexKeys : GetItem(h, k)

SpecIndex == Init /\ [][NextIndex]_vars

\* the records of the rows of t whose primary key k satisfies lo <= k < hi
\* (Null: no bound on that side), in key order, over the columns of h
RowsInRange(h, t, lo, hi) ==
    LET pk == h.primary_key
        in(i) == /\ lo # Null => t.rows[i][pk].v >= lo.v
                 /\ hi # Null => t.rows[i][pk].v < hi.v
        hit == SelectIdx(t.rows, {i \in DOMAIN t.rows : in(i)})
    IN [i \in DOMAIN hit |-> [j \in DOMAIN h.columns |-> hit[i][h.columns[j]]]]

\* C3: on a table with an integer primary key, handle[k] returns exactly the
\* row whose key is k (no row when k is no key) and handle[a:b] returns exactly
\* the rows whose key lies in [a, b), an omitted bound being no bound.
C3_IndexedAccess ==
    (/\ last.op = "getitem"
     /\ last.arg.kind \in {"int", "slice"}
     /\ LastHandleCurrent
     /\ last.h.primary_key # None
     /\ last.arg.step \in {Null, IntV(1)})
    => /\ last.err = None
       /\ last.out.cols = last.h.columns
       /\ last.out.index = last.h.primary_key
       /\ last.out.records =
             IF last.arg.kind = "int"
             THEN RowsInRange(last.h, tables[last.h.name], last.arg.k,
                              IntV(last.arg.k.v + 1))
             ELSE RowsInRange(last.h, tables[last.h.name], last.arg.start,
                              last.arg.stop)

\* handle[1:2] returned the row with the key 1 of a table that also holds
\* the key 2
C3_Witness ==
    /\ last.op = "getitem"
    /\ last.arg = SliceKey(IntV(1), IntV(2), Null)
    /\ LastHandleCurrent
    /\ last.h.autoincrement
    /\ last.err = None
    /\ Len(last.out.records) = 1
    /\ \E i \in DOMAIN tables[last.h.name].rows :
          tables[last.h.name].rows[i][last.h.primary_key] = IntV(2)

\* C4 as stated: indexed access with a slice whose step is not None or 1
\* fails with UnsupportedStep on every Table object.
C4_EveryHandle ==
    (/\ last.op = "getitem"
     /\ last.arg.kind = "slice"
     /\ last.arg.step \notin {Null, IntV(1)})
    => last.err = UnsupportedStep

\* C4 amended: indexed access with a slice whose step is not None or 1 returns
\* no rows and fails, whatever start and stop are and whether or not the table
\* still exists: with UnsupportedStep on a Table object that has a primary
\* key, with NoPrimaryKey on one that has none.
C4_UnsupportedStep ==
    (/\ last.op = "getitem"
     /\ last.arg.kind = "slice"
     /\ last.arg.step \notin {Null, IntV(1)})
    => /\ last.out = NoFrame
       /\ last.h.primary_key # None => last.err = UnsupportedStep
       /\ last.h.primary_key = None => last.err = NoPrimaryKey

\* handle[::2] failed with UnsupportedStep on a table with a primary key that
\* holds rows
C4_Witness ==
    /\ last.op = "getitem"
    /\ last.arg = SliceKey(Null, Null, IntV(2))
    /\ LastHandleCurrent
    /\ last.h.primary_key # None
    /\ tables[last.h.name].rows # <<>>
    /\ last.err = UnsupportedStep

----------------------------------------------------------------------------
(* The column list of insert. *)

\* every row of the call has one entry less than the table has columns
EveryRowShort(h, rows) ==
    \A i \in DOMAIN rows : RowLen(rows[i]) = Len(h.columns) - 1

\* the keys of the rows of a table
KeysOf(t) == {t.rows[i][RowidColumn(t)] : i \in DOMAIN t.rows}

\* C9: the column list of the INSERT statements leaves the primary key out
\* only when the table has a primary key and every row of the call (not just
\* the first) has one entry less than the table has columns; in every other
\* case the primary key stays in the column list and the rows supply its
\* value, so a key a row gives is a key of the table after the call.
C9_EveryRowDecides ==
    [][\A h \in handles :
        LET rows == Normalize(last'.arg)
        IN (/\ last'.op = "insert"
            /\ last'.h = h
            /\ last'.err = None
            /\ h.primary_key # None
            /\ TableExists(h.name)
            /\ h = Introspect(h.name))
           => /\ h.primary_key \notin Range(InsertCols(h, rows))
                    <=> EveryRowShort(h, rows)
              /\ ~EveryRowShort(h, rows)
                    => \A i \in DOMAIN rows :
                          GivenValue(h, rows[i], h.primary_key).t = "int"
                             => GivenValue(h, rows[i], h.primary_key)
                                   \in KeysOf(tables'[h.name])]_vars

\* the column count insert holds the sequence rows to: the declared columns,
\* less the primary key when the first row of the call has one entry less
\* than the table has columns
ResolvedCount(h, rows) ==
    IF h.primary_key # None /\ RowLen(rows[1]) = Len(h.columns) - 1
    THEN Len(h.columns) - 1
    ELSE Len(h.columns)

\* C10: every row of insert given as an ordered sequence must have exactly as
\* many values as the resolved column count (the declared columns, less the
\* primary key when it is left out of the column list); the call fails with
\* ColumnCountMismatch exactly when some sequence row has another length, and
\* then no row of the call is stored.
C10_ColumnCount ==
    [][\A h \in handles :
        LET rows == Normalize(last'.arg)
        IN (last'.op = "insert" /\ last'.h = h /\ rows # <<>>)
           => /\ last'.err = ColumnCountMismatch
                    <=> \E i \in DOMAIN rows :
                           /\ rows[i].kind = "seq"
                           /\ Len(rows[i].vals) # ResolvedCount(h, rows)
              /\ last'.err = ColumnCountMismatch => tables' = tables]_vars

\* a list whose first row fits the column list and whose second row does not
\* was refused
C10_Witness ==
    /\ last.op = "insert"
    /\ last.err = ColumnCountMismatch
    /\ last.arg.form = "list"
    /\ last.h.primary_key = "id"
    /\ Len(last.arg.rows[1].vals) = 1
    /\ Len(last.arg.rows[2].vals) = 2
    /\ tables[last.h.name].rows = <<>>

----------------------------------------------------------------------------
(* Table creation and introspection: the declarations a caller may make. *)

SchemaDtypes ==
    { << <<"id", "int">>, <<"name", "str">> >>,
      << <<"id", "str">>, <<"name", "str">> >>,
      << <<"name", "unicode">>, <<"id", "long">> >>,
      << <<"id", "int">>, <<"name", "bool">> >>,
      << <<"name", "bool">>, <<"id", "str">> >>,
      << <<"id", "float">>, <<"name", "buffer">> >>,
      << <<"id", "int">>, <<"id", "str">> >>,
      << >> }

SchemaKeys == {None, "id", "name", "age"}

NextSchema ==
    \/ \E n \in Names : ExistsCall(n)
    \/ \E n \in Names, d \in SchemaDtypes, pk \in SchemaKeys, ai \in BOOLEAN :
          Create(n, d, pk, ai)
    \/ \E n \in Names : Construct(n)
    \/ \E h \in handles : Drop(h)

SpecSchema == Init /\ [][NextSchema]_vars

\* the column names of a declaration, in order
Labels(dtypes) == [i \in DOMAIN dtypes |-> dtypes[i][1]]

\* C7: a table created with the ordered columns C gives a Table object whose
\* column list is C; its primary key is p when the table was created with a
\* primary key p in C, and absent when it was created without one.  A Table
\* object constructed afterwards for the same table is the same.
C7_Introspection ==
    /\ (last.op = "create" /\ last.err = None)
          => /\ last.h.name = last.arg.name
             /\ last.h.columns = Labels(last.arg.dtypes)
             /\ last.arg.primary_key \in Range(Labels(last.arg.dtypes))
                   => last.h.primary_key = last.arg.primary_key
             /\ last.arg.primary_key = None => last.h.primary_key = None
    /\ (last.op = "init" /\ last.err = None)
          => /\ last.h.columns = TableColumns(tables[last.h.name])
             /\ last.h.primary_key = RowidColumn(tables[last.h.name])

\* a table was created whose primary key is its second column
C7_Witness ==
    /\ last.op = "create"
    /\ last.err = None
    /\ last.arg.primary_key = "id"
    /\ last.h.columns = <<"name", "id">>
    /\ last.h.primary_key = "id"

\* the declaration names the column p with a valid type that is not INTEGER,
\* and every column declared before it has a valid type
NonIntegerKey(dtypes, p) ==
    \E i \in DOMAIN dtypes :
        /\ dtypes[i][1] = p
        /\ SqlType(dtypes[i][2]) \notin {"", "INTEGER"}
        /\ \A j \in 1..(i - 1) : SqlType(dtypes[j][2]) # ""

\* C8 as stated, second half: when autoincrement is not requested, a declared
\* primary key of any valid affinity is accepted.
C8_AnyAffinityWithoutAutoincrement ==
    (/\ last.op = "create"
     /\ ~last.arg.autoincrement
     /\ last.arg.primary_key \in Range(Labels(last.arg.dtypes))
     /\ \A i \in DOMAIN last.arg.dtypes : SqlType(last.arg.dtypes[i][2]) # "")
    => last.err # InvalidPrimaryKey

\* C8 amended: when a primary key is declared whose column has a valid type of
\* an affinity other than INTEGER (and the columns before it have valid
\* types), create fails with InvalidPrimaryKey and returns no Table object,
\* whether or not autoincrement is requested; and create fails with
\* InvalidPrimaryKey in no other case.
C8_PrimaryKeyAffinity ==
    last.op = "create"
    => /\ NonIntegerKey(last.arg.dtypes, last.arg.primary_key)
             => (last.err = InvalidPrimaryKey /\ last.h = NoHandle)
       /\ last.err = InvalidPrimaryKey
             => \E i \in DOMAIN last.arg.dtypes :
                   /\ last.arg.dtypes[i][1] = last.arg.primary_key
                   /\ SqlType(last.arg.dtypes[i][2]) # "INTEGER"

\* create without autoincrement was refused a TEXT primary key
C8_Witness ==
    /\ last.op = "create"
    /\ ~last.arg.autoincrement
    /\ last.arg.primary_key = "id"
    /\ last.arg.dtypes = << <<"id", "str">>, <<"name", "str">> >>
    /\ last.err = InvalidPrimaryKey

----------------------------------------------------------------------------
(* Failed calls leave the database as it was. *)

\* C12: insert tests the length of every sequence row of the call before it
\* executes any INSERT statement: when the call fails with
\* ColumnCountMismatch the database is as it was before the call, and no row
\* of the call is stored, not even the well-formed rows before the bad one.
C12_MismatchStoresNothing ==
    [][(last'.op = "insert" /\ last'.err = ColumnCountMismatch)
       => (tables' = tables /\ dbfile' = dbfile)]_vars

\* a list of two sequence rows, the first of which fits the column list and
\* the second of which does not, was refused on a table that holds a row, and
\* the table holds that row only
C12_Witness ==
    /\ last.op = "insert"
    /\ last.err = ColumnCountMismatch
    /\ last.arg.form = "list"
    /\ LastHandleCurrent
    /\ last.arg.rows[1].kind = "seq"
    /\ Len(last.arg.rows[1].vals) = ResolvedCount(last.h, last.arg.rows)
    /\ Len(last.arg.rows[2].vals) # ResolvedCount(last.h, last.arg.rows)
    /\ Len(tables[last.h.name].rows) = 1

\* C13: create tests every declared column type and the primary key's type
\* before it executes the CREATE TABLE statement: when create fails with
\* InvalidType or InvalidPrimaryKey the database is as it was before the call.
\* No table is created and no Table object returned, Table.exists answers for
\* every name as it did before the call, and a name that had no table before
\* the call has none after it.
C13_FailedCreateChangesNothing ==
    [][(last'.op = "create" /\ last'.err \in {InvalidType, InvalidPrimaryKey})
       => /\ tables' = tables
          /\ dbfile' = dbfile
          /\ handles' = handles
          /\ last'.h = NoHandle
          /\ \A n \in Names : Exists(n)' = Exists(n)
          /\ \A n \in Names :
                (last'.arg.name = n /\ ~Exists(n)) => ~Exists(n)']_vars

\* create was refused for the type of its second column, after a first column
\* of a valid type, and no table of that name exists
C13_Witness ==
    /\ last.op = "create"
    /\ last.err = InvalidType
    /\ last.arg.dtypes = << <<"id", "int">>, <<"name", "bool">> >>
    /\ ~Exists(last.arg.name)

----------------------------------------------------------------------------
(* The columns and the index of the frame select returns. *)

SelectColumns ==
    { ColsNone, ColsStr("name"), ColsStr("id"), ColsList(<<"name">>),
      ColsList(<<"name", "id">>), ColsList(<<"id", "name">>) }

SelectValues ==
    {ValuesOne(SeqRow(<<Word(0)>>)), ValuesOne(SeqRow(<<IntV(2), Word(0)>>))}

NextSelect ==
    \/ \E n \in Names, d \in Dtypes, c \in InCreates : Create(n, d, c[1], c[2])
    \/ \E h \in handles : Drop(h)
    \/ \E h \in handles, v \in SelectValues : Insert(h, v)
    \/ \E h \in handles, c \in SelectColumns, w \in InWheres : Select(h, c, w)
    \/ \E h \in handles, c \in SelectColumns : SaveCsv(h, c, WhereNone)

SpecSelect == Init /\ [][NextSelect]_vars

\* the columns a call of select asks for: all of the table's, or those named
Requested(h, columns) ==
    IF columns.form = "none" THEN h.columns ELSE columns.cols

\* C11: on a Table object with a primary key, the frame select returns always
\* holds the primary key and is indexed by it: the columns are the requested
\* ones in the requested order, with the primary key put in front when it is
\* not among them.  On a Table object without a primary key the frame has no
\* index column and holds exactly the requested columns in the requested
\* order.  Every record has one value per column.
C11_SelectPrimaryKey ==
    (last.op \in {"select", "save_csv"} /\ last.err = None)
    => LET h == last.h
           req == Requested(h, last.arg.columns)
           out == last.out
       IN /\ h.primary_key # None
                => /\ h.primary_key \in Range(out.cols)
                   /\ out.index = h.primary_key
                   /\ out.cols = IF h.primary_key \in Range(req)
                                 THEN req
                                 ELSE <<h.primary_key>> \o req
          /\ h.primary_key = None
                => (out.index = None /\ out.cols = req)
          /\ \A i \in DOMAIN out.records : Len(out.records[i]) = Len(out.cols)

\* select("name") on a table with the primary key id returned a record, with
\* the columns id and name and the index id
C11_Witness ==
    /\ last.op = "select"
    /\ last.err = None
    /\ last.h.primary_key = "id"
    /\ last.arg.columns = ColsStr("name")
    /\ last.out.cols = <<"id", "name">>
    /\ last.out.index = "id"
    /\ last.out.records # <<>>

====
